---- MODULE Spec2Model ----
(***************************************************************************)
(* SiFa Toolkit (src/sifa_toolkit.py): the risk-assessment core.           *)
(*                                                                         *)
(* Texts that the code inspects character by character (hazard phrases,    *)
(* activities, area and industry names, measure titles) are sequences of   *)
(* one-character strings, so that slug(), str.strip() and the splitter's   *)
(* regular expression are computed as the code computes them.  Labels the  *)
(* code only stores and compares as a whole are TLA+ strings.              *)
(***************************************************************************)
EXTENDS Integers, Sequences, FiniteSets, TLC

(***************************************************************************)
(* Bounds of the model.                                                    *)
(***************************************************************************)
\* largest number of hazards the live assessment may hold
MaxHazards == 3
\* the wall clock (microseconds since the epoch of the model) stops here
MaxClock == 10000
\* largest threshold value drawn as input of compute_risk
MaxThreshold == 12
\* largest number of tokens (words, delimiters, spaces) of a text drawn as
\* input of split_hazard_text
MaxTokens == 5

(***************************************************************************)
(* Python values.                                                          *)
(***************************************************************************)
\* Python's None where a text or a list is expected
None == <<"None">>

\* the empty str
EmptyText == << >>

\* characters matched by \s in the texts of the model
Whitespace == {" "}

RECURSIVE lstrip(_)
lstrip(t) ==
    IF t # << >> /\ Head(t) \in Whitespace THEN lstrip(Tail(t)) ELSE t

RECURSIVE rstrip(_)
rstrip(t) ==
    IF t # << >> /\ t[Len(t)] \in Whitespace
    THEN rstrip(SubSeq(t, 1, Len(t) - 1))
    ELSE t

\* str.strip()
strip(t) == rstrip(lstrip(t))

\* "_".join(parts)
RECURSIVE join(_, _)
join(sep, parts) ==
    IF parts = << >> THEN << >>
    ELSE IF Len(parts) = 1 THEN parts[1]
    ELSE parts[1] \o sep \o join(sep, Tail(parts))

(***************************************************************************)
(* Risk scoring.                                                           *)
(***************************************************************************)
\* compute_risk with the band limits taken as exclusive
compute_risk_exclusive(prob, sev, thresholds) ==
    LET v == prob * sev
    IN  IF v < thresholds[1] THEN <<v, "niedrig">>
        ELSE IF v < thresholds[2] THEN <<v, "mittel">>
        ELSE IF v < thresholds[3] THEN <<v, "hoch">>
        ELSE <<v, "sehr hoch">>

compute_risk(prob, sev, thresholds) ==
    LET v == prob * sev
    IN  IF v <= thresholds[1] THEN <<v, "niedrig">>
        ELSE IF v <= thresholds[2] THEN <<v, "mittel">>
        ELSE IF v <= thresholds[3] THEN <<v, "hoch">>
        ELSE <<v, "sehr hoch">>

(***************************************************************************)
(* slug: the identity key of a template item.                              *)
(***************************************************************************)
\* the character class [a-zA-Z0-9_-]
SlugChars ==
    {"a","b","c","d","e","f","g","h","i","j","k","l","m",
     "n","o","p","q","r","s","t","u","v","w","x","y","z",
     "A","B","C","D","E","F","G","H","I","J","K","L","M",
     "N","O","P","Q","R","S","T","U","V","W","X","Y","Z",
     "0","1","2","3","4","5","6","7","8","9","_","-"}

SlugMaxLen == 80

\* re.sub(r"[^a-zA-Z0-9_-]+", "_", s): every maximal run of other
\* characters becomes one underscore
RECURSIVE SubNonSlug(_, _)
SubNonSlug(s, inRun) ==
    IF s = << >> THEN << >>
    ELSE IF Head(s) \in SlugChars
         THEN <<Head(s)>> \o SubNonSlug(Tail(s), FALSE)
         ELSE IF inRun THEN SubNonSlug(Tail(s), TRUE)
              ELSE <<"_">> \o SubNonSlug(Tail(s), TRUE)

slug(parts) ==
    LET s == SubNonSlug(join(<<"_">>, parts), FALSE)
    IN  SubSeq(s, 1, IF Len(s) < SlugMaxLen THEN Len(s) ELSE SlugMaxLen)

(***************************************************************************)
(* Splitting of composite hazard phrases.                                  *)
(***************************************************************************)
\* does the text t continue with the literal lit from position i on
StartsWithAt(t, i, lit) ==
    /\ i + Len(lit) - 1 <= Len(t)
    /\ \A k \in 1..Len(lit) : t[i + k - 1] = lit[k]

\* position after the longest run of whitespace starting at i
RECURSIVE SkipWs(_, _)
SkipWs(t, i) ==
    IF i <= Len(t) /\ t[i] \in Whitespace THEN SkipWs(t, i + 1) ELSE i

\* the alternatives of (?:,|/| und | & ), in the order the pattern tries them
SplitAlternatives ==
    << <<",">>, <<"/">>, <<" ","u","n","d"," ">>, <<" ","&"," ">> >>

\* end (exclusive) of the first alternative, from the a-th on, that matches
\* at j; 0 when none does
RECURSIVE AltEndFrom(_, _, _)
AltEndFrom(t, j, a) ==
    IF a > Len(SplitAlternatives) THEN 0
    ELSE IF StartsWithAt(t, j, SplitAlternatives[a]) THEN j + Len(SplitAlternatives[a])
    ELSE AltEndFrom(t, j, a + 1)

AltEndAt(t, j) == AltEndFrom(t, j, 1)

\* _SPLIT_PATTERN matched at position i: the leading \s* is greedy and gives
\* characters back one at a time until an alternative matches; the trailing
\* \s* takes all the whitespace that follows.  0 when there is no match at i.
RECURSIVE MatchFrom(_, _, _)
MatchFrom(t, i, j) ==
    LET e == AltEndAt(t, j)
    IN  IF e # 0 THEN SkipWs(t, e)
        ELSE IF j > i THEN MatchFrom(t, i, j - 1)
        ELSE 0

SplitMatchAt(t, i) == MatchFrom(t, i, SkipWs(t, i))

\* _SPLIT_PATTERN.split(text): pieces between the leftmost matches;
\* start is the first position of the current piece, i the scan position
RECURSIVE PatternSplit(_, _, _)
PatternSplit(t, start, i) ==
    IF i > Len(t) THEN << SubSeq(t, start, Len(t)) >>
    ELSE LET m == SplitMatchAt(t, i)
         IN  IF m # 0
             THEN << SubSeq(t, start, i - 1) >> \o PatternSplit(t, m, m)
             ELSE PatternSplit(t, start, i + 1)

\* [p.strip() for p in pieces if p and p.strip()]
RECURSIVE StripNonEmpty(_)
StripNonEmpty(pieces) ==
    IF pieces = << >> THEN << >>
    ELSE IF strip(Head(pieces)) # << >>
         THEN << strip(Head(pieces)) >> \o StripNonEmpty(Tail(pieces))
         ELSE StripNonEmpty(Tail(pieces))

\* Uniq keeping of every phrase its last occurrence instead of its first
RECURSIVE Uniq_keep_last(_, _)
Uniq_keep_last(parts, seen) ==
    IF parts = << >> THEN << >>
    ELSE IF \E k \in 2..Len(parts) : parts[k] = Head(parts)
         THEN Uniq_keep_last(Tail(parts), seen)
         ELSE << Head(parts) >> \o Uniq_keep_last(Tail(parts), seen)

\* the seen/uniq loop: first occurrences, in order
RECURSIVE Uniq(_, _)
Uniq(parts, seen) ==
    IF parts = << >> THEN << >>
    ELSE IF Head(parts) \in seen THEN Uniq(Tail(parts), seen)
         ELSE << Head(parts) >> \o Uniq(Tail(parts), seen \cup {Head(parts)})

\* split_hazard_text without the fallback "or [text.strip()]"
split_hazard_text_no_fallback(text) ==
    IF text = << >> THEN << >>
    ELSE Uniq(StripNonEmpty(PatternSplit(text, 1, 1)), {})

split_hazard_text(text) ==
    IF text = << >> THEN << >>
    ELSE LET uniq == Uniq(StripNonEmpty(PatternSplit(text, 1, 1)), {})
         IN  IF uniq # << >> THEN uniq ELSE << strip(text) >>

(***************************************************************************)
(* Data model: Measure, Hazard, Assessment (dataclasses).                  *)
(***************************************************************************)
STOP_LEVELS ==
    {"S (Substitution/Quelle entfernen)", "T (Technisch)", "O (Organisatorisch)",
     "P (PSA)", "Q (Qualifikation/Unterweisung)"}

DEFAULT_STOP == "O (Organisatorisch)"

\* Measure(title, stop_level, notes=...) with the dataclass defaults
Measure(title, stop_level, notes) ==
    [title |-> title, stop_level |-> stop_level, responsible |-> EmptyText,
     due_date |-> None, status |-> "offen", notes |-> notes]

\* Hazard(id, area, activity, hazard, sources, existing_controls) with the
\* dataclass defaults for everything else
Hazard(id, area, activity, hazard, sources, existing_controls) ==
    [id |-> id, area |-> area, activity |-> activity, hazard |-> hazard,
     sources |-> sources, existing_controls |-> existing_controls,
     prob |-> 3, sev |-> 3, risk_value |-> 9, risk_level |-> "mittel",
     additional_measures |-> << >>, last_review |-> None,
     reviewer |-> EmptyText, documentation_note |-> EmptyText]

\* the industry names that are keys of INDUSTRY_LIBRARY (two of them), as
\* short texts; the first holds a character slug() replaces
Hotel == <<"H", "/", "G">>
Baeckerei == <<"B", "ä">>

DefaultThresholds == <<6, 12, 16>>

\* Assessment(...) as main() creates it at session start, before the preload
NewAssessment ==
    [company |-> "Musterbetrieb GmbH", location |-> "Beispielstadt",
     created_at |-> "today", created_by |-> "HSE/SiFa",
     industry |-> Hotel, scope_note |-> EmptyText,
     risk_matrix_thresholds |-> [thresholds |-> DefaultThresholds],
     hazards |-> << >>, measures_plan_note |-> EmptyText,
     documentation_note |-> EmptyText, next_review_hint |-> EmptyText]

(***************************************************************************)
(* Identifiers.                                                            *)
(***************************************************************************)
MicrosPerSecond == 1000000
SuffixModulus == 10000

\* new_id(): "HZ-<int(timestamp)>-<last 4 digits of the microseconds>";
\* now is the clock reading in microseconds (both datetime.now() calls of
\* one new_id() are taken to read the same instant)
new_id(now) == <<"HZ", now \div MicrosPerSecond, now % SuffixModulus>>

(***************************************************************************)
(* Template library.  A template is the ordered mapping area -> items, a   *)
(* sequence of <<area, items>>; an item is a dict, a record whose keys may *)
(* be absent.  A measure template is a dict ([dict |-> ...]) or a bare     *)
(* title ([str |-> ...]).                                                  *)
(***************************************************************************)
Has(d, k) == k \in DOMAIN d

\* M(title, stop)
M(title, stop) == [dict |-> [title |-> title, stop_level |-> stop]]

Kueche == <<"K", "ü">>

LIB_HOTEL ==
    << << Kueche,
          << [activity |-> <<"k">>, hazard |-> <<"A", ",", " ", "B">>,
              sources |-> << <<"h">> >>, existing |-> << <<"e">> >>,
              measures |-> << M(<<"m">>, "T (Technisch)"), M(<<"n">>, DEFAULT_STOP) >>],
             [activity |-> <<"s">>, hazard |-> <<"C">>,
              sources |-> << <<"x">> >>, existing |-> << <<"y">> >>,
              measures |-> << M(<<"p">>, "P (PSA)") >>] >> >> >>

LIB_BAECKEREI == << >>

INDUSTRY_LIBRARY ==
    << <<Hotel, LIB_HOTEL>>, <<Baeckerei, LIB_BAECKEREI>> >>

\* INDUSTRY_LIBRARY.get(industry, {})
LibraryGet(industry) ==
    IF \E i \in 1..Len(INDUSTRY_LIBRARY) : INDUSTRY_LIBRARY[i][1] = industry
    THEN INDUSTRY_LIBRARY[CHOOSE i \in 1..Len(INDUSTRY_LIBRARY) :
                              INDUSTRY_LIBRARY[i][1] = industry][2]
    ELSE << >>

\* a template a caller of add_template_items passes that is not part of the
\* library: items without sources/existing, a bare-title measure, a measure
\* whose title is blank, a measure with notes, an item without measures
CustomTemplate ==
    << << <<"W">>,
          << [activity |-> <<"k">>, hazard |-> <<"A", "/", "B">>,
              measures |-> << [str |-> <<" ", "q">>],
                              [dict |-> [title |-> <<" ">>]],
                              [dict |-> [title |-> <<"r">>, notes |-> <<"n">>]] >>],
             [activity |-> <<"k">>, hazard |-> <<"A", "&", "B">>] >> >> >>

TemplateNames == {"LIB_HOTEL", "custom"}

TemplateOf(name) ==
    IF name = "LIB_HOTEL" THEN LIB_HOTEL ELSE CustomTemplate

\* for area, items in template.items(): for item in items  -- the pairs
\* <<area, item>> in iteration order
RECURSIVE TemplateItems(_)
TemplateItems(template) ==
    IF template = << >> THEN << >>
    ELSE [i \in 1..Len(template[1][2]) |-> << template[1][1], template[1][2][i] >>]
         \o TemplateItems(Tail(template))

ItemGet(item, k, default) == IF Has(item, k) THEN item[k] ELSE default

template_item_key(industry, area, item) ==
    slug(<< industry, area, ItemGet(item, "activity", EmptyText),
            ItemGet(item, "hazard", EmptyText) >>)

(***************************************************************************)
(* Merge engine.                                                           *)
(***************************************************************************)
\* normalize_measure without the trimming of the title and without the test
\* "mm.title" that drops a measure whose title is blank
normalize_measure_untrimmed(m) ==
    IF Has(m, "dict")
    THEN << Measure(ItemGet(m.dict, "title", EmptyText),
                    ItemGet(m.dict, "stop_level", DEFAULT_STOP),
                    ItemGet(m.dict, "notes", EmptyText)) >>
    ELSE IF Has(m, "str")
    THEN << Measure(m.str, DEFAULT_STOP, EmptyText) >>
    ELSE << >>

\* normalize_measure(m) followed by "if mm and mm.title": the sequence of
\* measures (none or one) that m contributes
normalize_measure(m) ==
    IF Has(m, "dict")
    THEN LET t == strip(ItemGet(m.dict, "title", EmptyText))
         IN  IF t # EmptyText
             THEN << Measure(t, ItemGet(m.dict, "stop_level", DEFAULT_STOP),
                             ItemGet(m.dict, "notes", EmptyText)) >>
             ELSE << >>
    ELSE IF Has(m, "str")
    THEN LET t == strip(m.str)
         IN  IF t # EmptyText THEN << Measure(t, DEFAULT_STOP, EmptyText) >> ELSE << >>
    ELSE << >>

RECURSIVE NormalizedMeasures(_)
NormalizedMeasures(ms) ==
    IF ms = << >> THEN << >>
    ELSE normalize_measure(Head(ms)) \o NormalizedMeasures(Tail(ms))

\* ItemHazards reading the existing controls of the item under the key of
\* the Hazard field, "existing_controls", instead of "existing"
ItemHazards_wrong_key(area, item, split_multi) ==
    LET hazard_text == ItemGet(item, "hazard", EmptyText)
        hazards_list == IF split_multi THEN split_hazard_text(hazard_text)
                        ELSE << hazard_text >>
        measures == NormalizedMeasures(ItemGet(item, "measures", << >>))
    IN  [i \in 1..Len(hazards_list) |->
            [Hazard(None, area, ItemGet(item, "activity", EmptyText), hazards_list[i],
                    ItemGet(item, "sources", << >>),
                    ItemGet(item, "existing_controls", << >>))
             EXCEPT !.additional_measures = measures]]

\* the hazards one template item expands into, in order, with the ids still
\* to be assigned (id None)
ItemHazards(area, item, split_multi) ==
    LET hazard_text == ItemGet(item, "hazard", EmptyText)
        hazards_list == IF split_multi THEN split_hazard_text(hazard_text)
                        ELSE << hazard_text >>
        measures == NormalizedMeasures(ItemGet(item, "measures", << >>))
    IN  [i \in 1..Len(hazards_list) |->
            [Hazard(None, area, ItemGet(item, "activity", EmptyText), hazards_list[i],
                    ItemGet(item, "sources", << >>), ItemGet(item, "existing", << >>))
             EXCEPT !.additional_measures = measures]]

\* ItemSelected skipping only when no key at all was selected: the test
\* "key not in selected_keys" replaced by "not selected_keys"
ItemSelected_any_key(industry, area, item, selected_keys) ==
    \/ ~selected_keys.given
    \/ selected_keys.keys # {}

\* is the item applied: selected_keys is None, or its key is in selected_keys
ItemSelected(industry, area, item, selected_keys) ==
    \/ ~selected_keys.given
    \/ template_item_key(industry, area, item) \in selected_keys.keys

RECURSIVE ExpandItems(_, _, _, _)
ExpandItems(pairs, industry, selected_keys, split_multi) ==
    IF pairs = << >> THEN << >>
    ELSE (IF ItemSelected(industry, Head(pairs)[1], Head(pairs)[2], selected_keys)
          THEN ItemHazards(Head(pairs)[1], Head(pairs)[2], split_multi)
          ELSE << >>)
         \o ExpandItems(Tail(pairs), industry, selected_keys, split_multi)

\* clock reading of the k-th new_id() of a call that starts at clock "now"
\* when the clock advances by step between two id generations
Reading(now, step, k) == now + k * step

\* split_multi as add_template_items resolves it: the session option when
\* the argument is None
ResolveSplit(split_multi, option) ==
    IF split_multi = "None" THEN option ELSE split_multi = "True"

\* the drafts whose content is not among present
RECURSIVE NotPresent(_, _)
NotPresent(drafts, present) ==
    IF drafts = << >> THEN << >>
    ELSE IF Head(drafts) \in present THEN NotPresent(Tail(drafts), present)
    ELSE << Head(drafts) >> \o NotPresent(Tail(drafts), present)

\* add_template_items skipping every hazard whose content the assessment
\* already holds
add_template_items_dedup(assess, template, selected_keys, industry_name, split_multi, option, now, step) ==
    LET industry == IF industry_name # None /\ industry_name # EmptyText
                    THEN industry_name ELSE assess.industry
        drafts == NotPresent(
                      ExpandItems(TemplateItems(template), industry, selected_keys,
                                  ResolveSplit(split_multi, option)),
                      {[assess.hazards[i] EXCEPT !.id = None] : i \in 1..Len(assess.hazards)})
    IN  assess.hazards
        \o [k \in 1..Len(drafts) |->
               [drafts[k] EXCEPT !.id = new_id(Reading(now, step, k))]]

\* add_template_items putting the new hazards in front of the list instead
\* of appending them
add_template_items_in_front(assess, template, selected_keys, industry_name, split_multi, option, now, step) ==
    LET industry == IF industry_name # None /\ industry_name # EmptyText
                    THEN industry_name ELSE assess.industry
        drafts == ExpandItems(TemplateItems(template), industry, selected_keys,
                              ResolveSplit(split_multi, option))
    IN  [k \in 1..Len(drafts) |->
            [drafts[k] EXCEPT !.id = new_id(Reading(now, step, k))]]
        \o assess.hazards

\* add_template_items(assess, template, selected_keys, industry_name,
\* split_multi): the hazard list of assess after the call
add_template_items(assess, template, selected_keys, industry_name, split_multi, option, now, step) ==
    LET industry == IF industry_name # None /\ industry_name # EmptyText
                    THEN industry_name ELSE assess.industry
        drafts == ExpandItems(TemplateItems(template), industry, selected_keys,
                              ResolveSplit(split_multi, option))
    IN  assess.hazards
        \o [k \in 1..Len(drafts) |->
               [drafts[k] EXCEPT !.id = new_id(Reading(now, step, k))]]

\* preload_industry(assess, industry_name, replace): assess after the call
preload_industry(assess, industry_name, replace, option, now, step) ==
    LET a1 == [assess EXCEPT !.industry = industry_name,
                             !.hazards = IF replace THEN << >> ELSE @]
    IN  [a1 EXCEPT !.hazards =
            add_template_items(a1, LibraryGet(industry_name),
                               [given |-> FALSE, keys |-> {}],
                               industry_name, "None", option, now, step)]

(***************************************************************************)
(* Serialization.  A serialized assessment is [parsable, data]: whether    *)
(* json.loads accepts the text, and the parsed object, a record whose keys *)
(* may be absent.                                                          *)
(***************************************************************************)
MeasureFields == {"title", "stop_level", "responsible", "due_date", "status", "notes"}

\* asdict(assess): every dataclass field, recursively, under its own name
as_json(assess) ==
    [parsable |-> TRUE,
     data |->
       [company |-> assess.company, location |-> assess.location,
        created_at |-> assess.created_at, created_by |-> assess.created_by,
        industry |-> assess.industry, scope_note |-> assess.scope_note,
        risk_matrix_thresholds |-> assess.risk_matrix_thresholds,
        hazards |->
          [i \in 1..Len(assess.hazards) |->
             LET h == assess.hazards[i]
             IN  [id |-> h.id, area |-> h.area, activity |-> h.activity,
                  hazard |-> h.hazard, sources |-> h.sources,
                  existing_controls |-> h.existing_controls,
                  prob |-> h.prob, sev |-> h.sev,
                  risk_value |-> h.risk_value, risk_level |-> h.risk_level,
                  additional_measures |->
                    [j \in 1..Len(h.additional_measures) |->
                       LET m == h.additional_measures[j]
                       IN  [title |-> m.title, stop_level |-> m.stop_level,
                            responsible |-> m.responsible, due_date |-> m.due_date,
                            status |-> m.status, notes |-> m.notes]],
                  last_review |-> h.last_review, reviewer |-> h.reviewer,
                  documentation_note |-> h.documentation_note]],
        measures_plan_note |-> assess.measures_plan_note,
        documentation_note |-> assess.documentation_note,
        next_review_hint |-> assess.next_review_hint]]

\* Measure(**m) raises TypeError when title or stop_level is missing or a
\* key is not a field of Measure
MeasureDictOk(m) ==
    /\ {"title", "stop_level"} \subseteq DOMAIN m
    /\ DOMAIN m \subseteq MeasureFields

MeasureFromDict(m) ==
    [title |-> m.title, stop_level |-> m.stop_level,
     responsible |-> ItemGet(m, "responsible", EmptyText),
     due_date |-> ItemGet(m, "due_date", None),
     status |-> ItemGet(m, "status", "offen"),
     notes |-> ItemGet(m, "notes", EmptyText)]

\* h["id"], h["area"], h["activity"], h["hazard"] raise KeyError when missing
HazardDictOk(h) ==
    /\ {"id", "area", "activity", "hazard"} \subseteq DOMAIN h
    /\ \A j \in 1..Len(ItemGet(h, "additional_measures", << >>)) :
          MeasureDictOk(h.additional_measures[j])

\* HazardFromDict reading the existing controls under the legacy key only
HazardFromDict_legacy_only(h) ==
    [id |-> h.id, area |-> h.area, activity |-> h.activity, hazard |-> h.hazard,
     sources |-> ItemGet(h, "sources", << >>),
     existing_controls |-> ItemGet(h, "existing", << >>),
     prob |-> ItemGet(h, "prob", 3), sev |-> ItemGet(h, "sev", 3),
     risk_value |-> ItemGet(h, "risk_value", 9),
     risk_level |-> ItemGet(h, "risk_level", "mittel"),
     additional_measures |->
        [j \in 1..Len(ItemGet(h, "additional_measures", << >>)) |->
            MeasureFromDict(h.additional_measures[j])],
     last_review |-> ItemGet(h, "last_review", None),
     reviewer |-> ItemGet(h, "reviewer", EmptyText),
     documentation_note |-> ItemGet(h, "documentation_note", EmptyText)]

HazardFromDict(h) ==
    [id |-> h.id, area |-> h.area, activity |-> h.activity, hazard |-> h.hazard,
     sources |-> ItemGet(h, "sources", << >>),
     existing_controls |-> ItemGet(h, "existing_controls", ItemGet(h, "existing", << >>)),
     prob |-> ItemGet(h, "prob", 3), sev |-> ItemGet(h, "sev", 3),
     risk_value |-> ItemGet(h, "risk_value", 9),
     risk_level |-> ItemGet(h, "risk_level", "mittel"),
     additional_measures |->
        [j \in 1..Len(ItemGet(h, "additional_measures", << >>)) |->
            MeasureFromDict(h.additional_measures[j])],
     last_review |-> ItemGet(h, "last_review", None),
     reviewer |-> ItemGet(h, "reviewer", EmptyText),
     documentation_note |-> ItemGet(h, "documentation_note", EmptyText)]

\* does from_json(doc) return (TRUE) or raise (FALSE)
from_json_ok(doc) ==
    /\ doc.parsable
    /\ \A i \in 1..Len(ItemGet(doc.data, "hazards", << >>)) :
          HazardDictOk(doc.data.hazards[i])

\* from_json(doc), when it returns
from_json(doc) ==
    LET data == doc.data
    IN  [company |-> ItemGet(data, "company", ""),
         location |-> ItemGet(data, "location", ""),
         created_at |-> ItemGet(data, "created_at", ""),
         created_by |-> ItemGet(data, "created_by", ""),
         industry |-> ItemGet(data, "industry", Hotel),
         scope_note |-> ItemGet(data, "scope_note", EmptyText),
         risk_matrix_thresholds |->
            ItemGet(data, "risk_matrix_thresholds", [thresholds |-> DefaultThresholds]),
         hazards |->
            [i \in 1..Len(ItemGet(data, "hazards", << >>)) |->
                HazardFromDict(data.hazards[i])],
         measures_plan_note |-> ItemGet(data, "measures_plan_note", EmptyText),
         documentation_note |-> ItemGet(data, "documentation_note", EmptyText),
         next_review_hint |-> ItemGet(data, "next_review_hint", EmptyText)]

(***************************************************************************)
(* Excel export.  A DataFrame is [columns, rows]: its column labels and    *)
(* the number of its rows; a worksheet is [name, header, max_row,          *)
(* max_column].  The labels are the literals of the code, which carry no   *)
(* surrounding whitespace, so cell.strip() leaves them as they are.        *)
(***************************************************************************)
HazardColumns ==
    <<"ID", "Bereich", "Tätigkeit", "Gefährdung", "Quellen/Einwirkungen",
      "Bestehende Maßnahmen", "Eintrittswahrscheinlichkeit (1-5)",
      "Schadensschwere (1-5)", "Risikosumme", "Risikostufe", "Letzte Prüfung",
      "Prüfer/in", "Dokumentationshinweis">>

MeasureColumns ==
    <<"Gefährdungs-ID", "Bereich", "Gefährdung", "Maßnahme", "STOP(+Q)",
      "Verantwortlich", "Fällig am", "Status", "Hinweis">>

PlanColumns ==
    <<"Gefährdungs-ID", "Bereich", "Tätigkeit", "Gefährdung", "Risikosumme",
      "Risikostufe", "Maßnahme", "STOP(+Q)", "Verantwortlich", "Fällig am",
      "Status", "Hinweis">>

ReviewColumns ==
    <<"Gefährdungs-ID", "Bereich", "Tätigkeit", "Gefährdung", "Letzte Prüfung",
      "Prüfer/in", "Beurteilungs-/Dokumentationshinweis">>

\* pd.DataFrame(rows) for a list of dicts with the keys columns: a frame
\* built from an empty list has no columns at all
FrameOfRows(columns, rows) ==
    [columns |-> IF rows = 0 THEN << >> ELSE columns, rows |-> rows]

\* pd.DataFrame(...) built with its columns given
FrameWithColumns(columns, rows) == [columns |-> columns, rows |-> rows]

\* number of (hazard, measure) pairs
RECURSIVE CountMeasures(_)
CountMeasures(hs) ==
    IF hs = << >> THEN 0
    ELSE Len(Head(hs).additional_measures) + CountMeasures(Tail(hs))

\* df.to_excel(writer, sheet_name=name, index=False): the header row, when
\* the frame has columns, then the data rows; an empty worksheet reports
\* max_row = max_column = 1
ToExcel(name, df) ==
    [name |-> name, header |-> df.columns,
     max_row |-> IF df.columns = << >> THEN 1 ELSE 1 + df.rows,
     max_column |-> IF df.columns = << >> THEN 1 ELSE Len(df.columns)]

\* ws.cell(row=1, column=c).value or ""
HeaderCell(ws, c) == IF c <= Len(ws.header) THEN ws.header[c] ELSE ""

\* FindColumn giving the position the column has in hazard_to_row and in
\* the plan rows, without looking at the header
FindColumn_by_position(ws, label, c) ==
    IF label = "Status" THEN 11 ELSE 9

\* the search "for c in range(1, ws.max_column + 1)" for the header cell
\* that equals label: its column, 0 (None) when there is none
RECURSIVE FindColumn(_, _, _)
FindColumn(ws, label, c) ==
    IF c > ws.max_column THEN 0
    ELSE IF HeaderCell(ws, c) = label THEN c
    ELSE FindColumn(ws, label, c + 1)

Max(a, b) == IF a >= b THEN a ELSE b

LastExcelRow == 1048576

\* the frames in the order they are written, with their sheet names
ExcelFrames(assess) ==
    LET n == Len(assess.hazards)
        m == CountMeasures(assess.hazards)
    IN  << <<"01_Stammdaten", FrameWithColumns(<<"Feld", "Wert">>, 6)>>,
           <<"10_Gefährdungen", FrameOfRows(HazardColumns, n)>>,
           <<"20_Maßnahmen", FrameOfRows(MeasureColumns, m)>>,
           <<"30_Plan", FrameOfRows(PlanColumns, m)>>,
           <<"40_Wirksamkeit", FrameOfRows(ReviewColumns, n)>>,
           <<"50_Dokumentation", FrameWithColumns(<<"Dokumentationshinweis">>, 1)>>,
           <<"60_Fortschreiben",
             FrameWithColumns(<<"Anlässe/Fristen (Fortschreibung)">>, 1)>>,
           <<"90_Konfiguration", FrameWithColumns(<<"Einstellung", "Wert">>, 3)>> >>

\* the sheet of the workbook with the given name
SheetNamed(sheets, name) ==
    sheets[CHOOSE i \in 1..Len(sheets) : sheets[i].name = name]

\* the dropdown and the colour scale dump_excel adds to the written sheets
Formatting(sheets, thresholds) ==
    LET names == {sheets[i].name : i \in 1..Len(sheets)}
        status_col == IF "30_Plan" \in names
                         /\ SheetNamed(sheets, "30_Plan").max_row >= 2
                         /\ SheetNamed(sheets, "30_Plan").max_column >= 1
                      THEN FindColumn(SheetNamed(sheets, "30_Plan"), "Status", 1)
                      ELSE 0
        risk_col == IF "10_Gefährdungen" \in names
                    THEN FindColumn(SheetNamed(sheets, "10_Gefährdungen"), "Risikosumme", 1)
                    ELSE 0
    IN  [status_validation |->
            IF status_col # 0
            THEN << [column |-> status_col, first_row |-> 2, last_row |-> LastExcelRow] >>
            ELSE << >>,
         color_scale |->
            IF risk_col # 0
            THEN << [column |-> risk_col, first_row |-> 2,
                     last_row |-> SheetNamed(sheets, "10_Gefährdungen").max_row,
                     start_value |-> 1,
                     mid_value |-> Max(2, thresholds[2]),
                     end_value |-> Max(3, thresholds[3] + 1)] >>
            ELSE << >>]

\* the frames with at least one row
RECURSIVE NonEmptyFrames(_)
NonEmptyFrames(frames) ==
    IF frames = << >> THEN << >>
    ELSE (IF Head(frames)[2].rows > 0 THEN << Head(frames) >> ELSE << >>)
         \o NonEmptyFrames(Tail(frames))

\* dump_excel writing a sheet only for a frame that has rows
dump_excel_skip_empty(assess) ==
    LET frames == NonEmptyFrames(ExcelFrames(assess))
        sheets == [i \in 1..Len(frames) |-> ToExcel(frames[i][1], frames[i][2])]
        fmt == Formatting(sheets, assess.risk_matrix_thresholds.thresholds)
    IN  [sheets |-> sheets, status_validation |-> fmt.status_validation,
         color_scale |-> fmt.color_scale]

\* dump_excel(assess): the workbook whose bytes are returned
dump_excel(assess) ==
    LET frames == ExcelFrames(assess)
        sheets == [i \in 1..Len(frames) |-> ToExcel(frames[i][1], frames[i][2])]
        fmt == Formatting(sheets, assess.risk_matrix_thresholds.thresholds)
    IN  [sheets |-> sheets, status_validation |-> fmt.status_validation,
         color_scale |-> fmt.color_scale]

(***************************************************************************)
(* State.                                                                  *)
(***************************************************************************)
VARIABLES
    assessment,               \* st.session_state.assessment, the live Assessment
    opt_split_multi_hazards,  \* st.session_state["opt_split_multi_hazards"]
    last_sector,              \* st.session_state.last_sector
    templates,                \* the template objects callers pass to the merge
    clock,                    \* datetime.now(), in microseconds
    last,                     \* the latest operation on the live assessment,
                              \* and whether it repeats the one before it
    riskIn,                   \* arguments of a compute_risk call
    riskOut,                  \* its result
    splitIn,                  \* argument of a split_hazard_text call
    splitOut,                 \* its result
    excelOut                  \* what a dump_excel call on assessment gave

vars == <<assessment, opt_split_multi_hazards, last_sector, templates, clock, last,
         riskIn, riskOut, splitIn, splitOut, excelOut>>

\* the variables that hold arguments and results of the functions applied on
\* their own
fnVars == <<riskIn, riskOut, splitIn, splitOut, excelOut>>

\* value of a result variable before the function was applied
NotCalled == <<"not called">>

\* value of excelOut before dump_excel was applied
NotExported == [sheets |-> << >>]

\* a hazard's content: everything but its id
Content(h) == [h EXCEPT !.id = None]

Contents(hs) == [i \in 1..Len(hs) |-> Content(hs[i])]

\* record of an operation: what it was called with, the number of hazards
\* before it, the content of the hazards it appended and of the list after;
\* repeat tells that it repeats the operation before it, of which first
\* then holds the outcome
Op(op, tmpl, ind, given, selItems, keys, split, replace, ok, parsable, before, after) ==
    [op |-> op, tmpl |-> tmpl, ind |-> ind, given |-> given, selItems |-> selItems,
     keys |-> keys, split |-> split, replace |-> replace, ok |-> ok,
     parsable |-> parsable, before |-> Len(before),
     added |-> IF Len(after) >= Len(before)
               THEN Contents(SubSeq(after, Len(before) + 1, Len(after)))
               ELSE << >>,
     after |-> Contents(after), repeat |-> FALSE, first |-> << >>]

\* an operation that is neither a merge nor a load: only its name is kept
OtherOp(op) ==
    Op(op, "", None, FALSE, {}, {}, FALSE, FALSE, TRUE, TRUE, << >>, << >>)

\* o follows p: is it the second of two preload_industry(a, I, replace=True)
\* in a row, or the second of two add_template_items with the same template,
\* selected_keys and split_multi, the first on an empty assessment
Repeats(p, o) ==
    \/ /\ o.op = "preload" /\ p.op = "preload"
       /\ o.replace /\ p.replace /\ o.ind = p.ind
    \/ /\ o.op = "add" /\ p.op = "add" /\ p.before = 0
       /\ o.tmpl = p.tmpl /\ o.given = p.given /\ o.keys = p.keys
       /\ o.split = p.split

Following(p, o) ==
    IF Repeats(p, o)
    THEN [o EXCEPT !.repeat = TRUE, !.first = p.after]
    ELSE o

\* how far the clock may advance between two id generations: not at all
\* (same reading), or by a quarter of the period of the id's suffix
ClockSteps == {0, SuffixModulus \div 4}

\* values typed into the three threshold inputs
ThresholdInputs == {9, 12, 16}

\* the session starts: main() creates the assessment and preloads the hotel
\* template; the split option is not yet in the session state, so the
\* lookup in add_template_items takes its default True
Init ==
    /\ \E step \in ClockSteps :
          /\ assessment = preload_industry(NewAssessment, Hotel, TRUE, TRUE, 0, step)
          /\ clock = Len(assessment.hazards) * step
    /\ opt_split_multi_hazards = TRUE
    /\ last = Op("preload", "", Hotel, FALSE, {}, {}, TRUE, TRUE, TRUE, TRUE,
                 << >>, assessment.hazards)
    /\ last_sector = Hotel
    /\ templates = [name \in TemplateNames |-> TemplateOf(name)]
    /\ riskIn = << >>
    /\ riskOut = << >>
    /\ splitIn = << >>
    /\ splitOut = NotCalled
    /\ excelOut = NotExported

\* the clock after n ids were generated step apart
Advance(n, step) ==
    /\ clock + n * step <= MaxClock
    /\ clock' = clock + n * step

(***************************************************************************)
(* Operations.                                                             *)
(***************************************************************************)
\* a call add_template_items(assessment, template, selected_keys,
\* industry_name, split_multi); the caller selects the items at the
\* positions selItems and passes their keys (as tab 0 does), or passes None
AddTemplateItems(tmpl, given, selItems, industry_name, split_multi, step) ==
    LET template == templates[tmpl]
        pairs == TemplateItems(template)
        industry == IF industry_name # None THEN industry_name ELSE assessment.industry
        keys == IF given
                THEN {template_item_key(industry, pairs[i][1], pairs[i][2]) : i \in selItems}
                ELSE {}
    IN  /\ selItems \subseteq 1..Len(pairs)
        /\ ~given => selItems = 1..Len(pairs)
        /\ \E hazards \in {add_template_items(assessment, template,
                                               [given |-> given, keys |-> keys],
                                               industry_name, split_multi,
                                               opt_split_multi_hazards, clock, step)} :
              /\ Len(hazards) <= MaxHazards
              /\ Advance(Len(hazards) - Len(assessment.hazards), step)
              /\ assessment' = [assessment EXCEPT !.hazards = hazards]
              /\ last' = Following(last,
                            Op("add", tmpl, industry, given, selItems, keys,
                               ResolveSplit(split_multi, opt_split_multi_hazards), FALSE,
                               TRUE, TRUE, assessment.hazards, hazards))
        /\ UNCHANGED <<opt_split_multi_hazards, last_sector, templates, fnVars>>

\* a call preload_industry(assessment, industry_name, replace)
PreloadIndustry(industry_name, replace, step) ==
    LET base == IF replace THEN << >> ELSE assessment.hazards
    IN  \E a \in {preload_industry(assessment, industry_name, replace,
                                   opt_split_multi_hazards, clock, step)} :
        /\ Len(a.hazards) <= MaxHazards
        /\ Advance(Len(a.hazards) - Len(base), step)
        /\ assessment' = a
        /\ last' = Following(last,
                      Op("preload", "", industry_name, FALSE, {}, {},
                         opt_split_multi_hazards, replace, TRUE, TRUE, base, a.hazards))
        /\ UNCHANGED <<opt_split_multi_hazards, last_sector, templates, fnVars>>

\* the selectbox "Branche" is set to another industry: the next run of the
\* script finds last_sector different, empties the hazard list and loads the
\* template of the industry
SelectIndustry(sector, step) ==
    /\ last_sector # sector
    /\ \E hazards \in {add_template_items([assessment EXCEPT !.hazards = << >>],
                                           LibraryGet(sector),
                                           [given |-> FALSE, keys |-> {}],
                                           sector, "None",
                                           opt_split_multi_hazards, clock, step)} :
          /\ Len(hazards) <= MaxHazards
          /\ Advance(Len(hazards), step)
          /\ assessment' = [assessment EXCEPT !.hazards = hazards,
                                              !.industry = sector]
          /\ last' = Op("sector", "", sector, FALSE, {}, {},
                        opt_split_multi_hazards, FALSE, TRUE, TRUE, << >>, hazards)
    /\ last_sector' = sector
    /\ UNCHANGED <<opt_split_multi_hazards, templates, fnVars>>

\* the checkbox "Mehrfach-Gefaehrdungen ... automatisch auftrennen"
ToggleSplitOption ==
    /\ opt_split_multi_hazards' = ~opt_split_multi_hazards
    /\ UNCHANGED <<assessment, last_sector, templates, clock, last, fnVars>>

\* the three number inputs of the risk matrix and the assignment that
\* follows them; each input enforces its min_value and max_value
EditThresholds(low, mid, high) ==
    /\ 2 <= low /\ low <= 10
    /\ low + 1 <= mid /\ mid <= 16
    /\ mid + 1 <= high /\ high <= 24
    /\ <<low, mid, high>> # assessment.risk_matrix_thresholds.thresholds
    /\ assessment' = [assessment EXCEPT
                         !.risk_matrix_thresholds.thresholds = <<low, mid, high>>]
    /\ last' = OtherOp("thresholds")
    /\ UNCHANGED <<opt_split_multi_hazards, last_sector, templates, clock, fnVars>>

\* LoadResult installing, when from_json raises on a parsable text, an
\* assessment built from the defaults
LoadResult_partial(assess, doc) ==
    IF from_json_ok(doc)
    THEN LET a == from_json(doc)
         IN  IF a.industry = EmptyText \/ a.industry = None
             THEN [a EXCEPT !.industry = Hotel]
             ELSE a
    ELSE IF doc.parsable THEN NewAssessment ELSE assess

\* what the upload handler leaves in st.session_state.assessment: the
\* assignment happens only after from_json has returned; an assessment
\* without industry then gets the default one
LoadResult(assess, doc) ==
    IF from_json_ok(doc)
    THEN LET a == from_json(doc)
         IN  IF a.industry = EmptyText \/ a.industry = None
             THEN [a EXCEPT !.industry = Hotel]
             ELSE a
    ELSE assess

\* serialized assessments a user uploads, besides one just downloaded
DocUnparsable == [parsable |-> FALSE, data |-> << >>]

DocLegacy ==
    [parsable |-> TRUE,
     data |-> [industry |-> EmptyText,
               risk_matrix_thresholds |-> [thresholds |-> <<12, 6, 16>>],
               hazards |-> << [id |-> <<"HZ", 7, 7>>, area |-> Kueche,
                               activity |-> <<"k">>, hazard |-> <<"L">>,
                               existing |-> << <<"z">> >>,
                               additional_measures |->
                                  << [title |-> <<"m">>, stop_level |-> "P (PSA)"] >>] >>]]

DocHazardWithoutId ==
    [parsable |-> TRUE,
     data |-> [hazards |-> << [area |-> Kueche, activity |-> <<"k">>,
                               hazard |-> <<"L">>] >>]]

DocMeasureWithoutTitle ==
    [parsable |-> TRUE,
     data |-> [hazards |-> << [id |-> <<"HZ", 7, 7>>, area |-> Kueche,
                               activity |-> <<"k">>, hazard |-> <<"L">>,
                               additional_measures |-> << [notes |-> <<"n">>] >>] >>]]

UploadDocs ==
    {DocUnparsable, DocLegacy, DocHazardWithoutId, DocMeasureWithoutTitle}

\* the uploader: content = up.read(); assessment = from_json(content)
LoadJson(doc) ==
    /\ assessment' = LoadResult(assessment, doc)
    /\ last' = Op("load", "", None, FALSE, {}, {}, FALSE, FALSE,
                  from_json_ok(doc), doc.parsable, << >>, << >>)
    /\ UNCHANGED <<opt_split_multi_hazards, last_sector, templates, clock, fnVars>>

\* text.split(sep) for a one-character separator
RECURSIVE SplitChar(_, _, _)
SplitChar(t, sep, piece) ==
    IF t = << >> THEN << piece >>
    ELSE IF Head(t) = sep THEN << piece >> \o SplitChar(Tail(t), sep, << >>)
    ELSE SplitChar(Tail(t), sep, Append(piece, Head(t)))

\* [s.strip() for s in text.split(";") if s.strip()]
SemicolonList(text) == StripNonEmpty(SplitChar(text, ";", << >>))

Sonstiges == <<"S", "o">>

\* inputs of the form "Gefaehrdung manuell hinzufuegen"
ManualHazardTexts == { <<"E", "/", "F">> }
ManualSourceTexts == { <<"a", ";", " ", "b">> }

\* the button "Hinzufuegen" of tab 2 (the form is reached only in a run of
\* the script in which colL is bound)
AddHazardManually(hazard_txt, sources, step) ==
    LET hazards_list == IF opt_split_multi_hazards THEN split_hazard_text(hazard_txt)
                        ELSE << hazard_txt >>
    IN  \E hazards \in {assessment.hazards
                         \o [k \in 1..Len(hazards_list) |->
                               Hazard(new_id(Reading(clock, step, k)), Sonstiges, <<"t">>,
                                      hazards_list[k], SemicolonList(sources),
                                      SemicolonList(EmptyText))]} :
        /\ Len(hazards) <= MaxHazards
        /\ Advance(Len(hazards_list), step)
        /\ assessment' = [assessment EXCEPT !.hazards = hazards]
        /\ last' = OtherOp("manual")
        /\ UNCHANGED <<opt_split_multi_hazards, last_sector, templates, fnVars>>

\* [h for h in hazards if h.id != sel_id]
RECURSIVE WithoutId(_, _)
WithoutId(hs, sel_id) ==
    IF hs = << >> THEN << >>
    ELSE IF Head(hs).id # sel_id THEN << Head(hs) >> \o WithoutId(Tail(hs), sel_id)
    ELSE WithoutId(Tail(hs), sel_id)

\* the button "Loeschen" for the hazard selected by its id
DeleteHazard(sel_id) ==
    /\ \E i \in 1..Len(assessment.hazards) : assessment.hazards[i].id = sel_id
    /\ assessment' = [assessment EXCEPT !.hazards = WithoutId(@, sel_id)]
    /\ last' = OtherOp("delete")
    /\ UNCHANGED <<opt_split_multi_hazards, last_sector, templates, clock, fnVars>>

Industries == {Hotel, Baeckerei}

\* the session: templates are loaded, the option and the thresholds edited,
\* assessments uploaded
Next ==
    \/ \E industry_name \in Industries, replace \in BOOLEAN, step \in ClockSteps :
          PreloadIndustry(industry_name, replace, step)
    \/ \E sector \in Industries, step \in ClockSteps : SelectIndustry(sector, step)
    \/ ToggleSplitOption
    \/ \E low \in ThresholdInputs, mid \in ThresholdInputs, high \in ThresholdInputs :
          EditThresholds(low, mid, high)
    \/ \E doc \in UploadDocs \cup {as_json(assessment)} : LoadJson(doc)

Spec == Init /\ [][Next]_vars

(***************************************************************************)
(* The merge engine on its own: calls of add_template_items and of         *)
(* preload_industry on the assessment of a fresh session.                  *)
(***************************************************************************)
NextMerge ==
    \/ \E tmpl \in TemplateNames, given \in BOOLEAN, selItems \in SUBSET (1..2),
          industry_name \in {None}, split_multi \in {"None"},
          step \in ClockSteps :
          AddTemplateItems(tmpl, given, selItems, industry_name, split_multi, step)
    \/ \E industry_name \in Industries, replace \in BOOLEAN, step \in ClockSteps :
          PreloadIndustry(industry_name, replace, step)
    \/ ToggleSplitOption

SpecMerge == Init /\ [][NextMerge]_vars

(***************************************************************************)
(* Editing the hazard list: templates are merged, hazards are added by     *)
(* hand and deleted by their id.                                           *)
(***************************************************************************)
NextEdit ==
    \/ \E industry_name \in Industries, replace \in BOOLEAN, step \in ClockSteps :
          PreloadIndustry(industry_name, replace, step)
    \/ ToggleSplitOption
    \/ \E hazard_txt \in ManualHazardTexts, sources \in ManualSourceTexts,
          step \in ClockSteps :
          AddHazardManually(hazard_txt, sources, step)
    \/ \E i \in 1..Len(assessment.hazards) : DeleteHazard(assessment.hazards[i].id)

SpecEdit == Init /\ [][NextEdit]_vars

(***************************************************************************)
(* compute_risk on its own: the arguments are drawn, then it is applied.   *)
(***************************************************************************)
AscendingTriples ==
    { t \in (1..MaxThreshold) \X (1..MaxThreshold) \X (1..MaxThreshold) :
        t[1] < t[2] /\ t[2] < t[3] }

InitRisk ==
    /\ clock = 0
    /\ assessment = NewAssessment
    /\ opt_split_multi_hazards = TRUE
    /\ last = OtherOp("init")
    /\ last_sector = Hotel
    /\ templates = [name \in TemplateNames |-> TemplateOf(name)]
    /\ riskIn \in (1..5) \X (1..5) \X AscendingTriples
    /\ riskOut = << >>
    /\ splitIn = << >>
    /\ splitOut = NotCalled
    /\ excelOut = NotExported

ComputeRisk ==
    /\ riskOut = << >>
    /\ riskOut' = compute_risk(riskIn[1], riskIn[2], riskIn[3])
    /\ UNCHANGED <<assessment, opt_split_multi_hazards, last_sector, templates, clock, last,
                   riskIn, splitIn, splitOut, excelOut>>

NextRisk == ComputeRisk

SpecRisk == InitRisk /\ [][NextRisk]_vars

(***************************************************************************)
(* split_hazard_text on its own: a text is drawn as a sequence of tokens,  *)
(* then the function is applied to it.                                     *)
(***************************************************************************)
Und == <<"u", "n", "d">>

\* two words, the space, and the four delimiters the docstring names
SplitTokens == { <<"A">>, <<"B">>, <<" ">>, <<",">>, <<"/">>, <<"&">>, Und }

\* the str the tokens spell
TextOf(tokens) == join(<< >>, tokens)

InitSplit ==
    /\ clock = 0
    /\ assessment = NewAssessment
    /\ opt_split_multi_hazards = TRUE
    /\ last = OtherOp("init")
    /\ last_sector = Hotel
    /\ templates = [name \in TemplateNames |-> TemplateOf(name)]
    /\ riskIn = << >>
    /\ riskOut = << >>
    /\ splitIn \in UNION { [1..n -> SplitTokens] : n \in 0..MaxTokens }
    /\ splitOut = NotCalled
    /\ excelOut = NotExported

SplitHazardText ==
    /\ splitOut = NotCalled
    /\ splitOut' = split_hazard_text(TextOf(splitIn))
    /\ UNCHANGED <<assessment, opt_split_multi_hazards, last_sector, templates, clock, last,
                   riskIn, riskOut, splitIn, excelOut>>

NextSplit == SplitHazardText

SpecSplit == InitSplit /\ [][NextSplit]_vars

(***************************************************************************)
(* dump_excel on its own: an assessment is drawn, then it is exported.     *)
(***************************************************************************)
\* a hazard list without its measures, as hazards added by hand have none
WithoutMeasures(hs) ==
    [i \in 1..Len(hs) |-> [hs[i] EXCEPT !.additional_measures = << >>]]

\* hazard lists to export: none, those a template merge into a new
\* assessment gives, and the same without measures
ExportHazardLists ==
    LET merged == { add_template_items(NewAssessment, TemplateOf(tmpl),
                                       [given |-> FALSE, keys |-> {}], None, "None",
                                       option, 0, step) :
                      tmpl \in TemplateNames, option \in BOOLEAN, step \in ClockSteps }
    IN  {<< >>} \cup merged \cup {WithoutMeasures(hs) : hs \in merged}

\* threshold triples to export: the ascending ones, and the one of DocLegacy
ExportThresholds ==
    AscendingTriples \cup {DocLegacy.data.risk_matrix_thresholds.thresholds}

InitExport ==
    /\ clock = 0
    /\ assessment \in { [NewAssessment EXCEPT !.hazards = hs,
                                               !.risk_matrix_thresholds.thresholds = t] :
                            hs \in ExportHazardLists, t \in ExportThresholds }
    /\ opt_split_multi_hazards = TRUE
    /\ last = OtherOp("init")
    /\ last_sector = Hotel
    /\ templates = [name \in TemplateNames |-> TemplateOf(name)]
    /\ riskIn = << >>
    /\ riskOut = << >>
    /\ splitIn = << >>
    /\ splitOut = NotCalled
    /\ excelOut = NotExported

DumpExcel ==
    /\ excelOut = NotExported
    /\ excelOut' = dump_excel(assessment)
    /\ UNCHANGED <<assessment, opt_split_multi_hazards, last_sector, templates, clock, last,
                   riskIn, riskOut, splitIn, splitOut>>

NextExport == DumpExcel

SpecExport == InitExport /\ [][NextExport]_vars

(***************************************************************************)
(* Properties.                                                             *)
(***************************************************************************)
Hazards == assessment.hazards

Thresholds == assessment.risk_matrix_thresholds.thresholds

\* C1: for prob, sev in 1..5 and a strictly ascending triple [l, m, h],
\* compute_risk returns value = prob*sev, and the level is niedrig exactly
\* when value <= l, mittel when l < value <= m, hoch when m < value <= h,
\* sehr hoch when value > h; a value equal to a threshold is in the lower band
C1_ComputeRiskBands ==
    riskOut # << >> =>
        LET v == riskIn[1] * riskIn[2]
            l == riskIn[3][1]
            m == riskIn[3][2]
            h == riskIn[3][3]
        IN  /\ riskOut[1] = v
            /\ riskOut[2] \in {"niedrig", "mittel", "hoch", "sehr hoch"}
            /\ (riskOut[2] = "niedrig") <=> (v <= l)
            /\ (riskOut[2] = "mittel") <=> (l < v /\ v <= m)
            /\ (riskOut[2] = "hoch") <=> (m < v /\ v <= h)
            /\ (riskOut[2] = "sehr hoch") <=> (h < v)

\* compute_risk was applied to a value that equals the middle threshold
C1_Witness ==
    /\ riskOut # << >>
    /\ riskIn[1] * riskIn[2] = riskIn[3][2]
    /\ riskOut[2] = "mittel"

\* C2: every hazard of the live assessment carries the risk value and level
\* that compute_risk gives for its prob and sev under the current thresholds
C2_RiskFieldsCurrent ==
    \A i \in 1..Len(Hazards) :
        <<Hazards[i].risk_value, Hazards[i].risk_level>>
            = compute_risk(Hazards[i].prob, Hazards[i].sev, Thresholds)

\* C3: the hazards of the live assessment have pairwise distinct ids
C3_IdsDistinct ==
    \A i, j \in 1..Len(Hazards) : i # j => Hazards[i].id # Hazards[j].id

\* C4: the thresholds triple of the live assessment is strictly ascending
C4_ThresholdsAscending ==
    /\ Thresholds[1] < Thresholds[2]
    /\ Thresholds[2] < Thresholds[3]

\* C5: the second of two preload_industry(a, I, replace=True) in a row leaves
\* hazards of the same content, in the same order, as the first
C5_ReplaceIdempotent ==
    (last.op = "preload" /\ last.repeat) => last.after = last.first

\* C6: the second of two add_template_items with the same template, selected
\* keys and split_multi, the first on an empty assessment, appends a batch of
\* the same content as the first and leaves twice as many hazards
C6_AppendDoubles ==
    (last.op = "add" /\ last.repeat) =>
        /\ last.added = last.first
        /\ last.before = Len(last.first)
        /\ Len(Hazards) = 2 * Len(last.first)
        /\ Contents(Hazards) = last.first \o last.first

\* a non-empty batch was appended twice
C6_Witness ==
    /\ last.op = "add" /\ last.repeat
    /\ last.first # << >>
    /\ Len(Hazards) = 2 * Len(last.first)

\* the hazards the items at the given positions expand into, in template order
RECURSIVE HazardsOfPositions(_, _, _, _)
HazardsOfPositions(pairs, n, positions, split_multi) ==
    IF n > Len(pairs) THEN << >>
    ELSE (IF n \in positions
          THEN ItemHazards(pairs[n][1], pairs[n][2], split_multi)
          ELSE << >>)
         \o HazardsOfPositions(pairs, n + 1, positions, split_multi)

LastPairs == TemplateItems(TemplateOf(last.tmpl))

\* C7 as stated: with selected_keys the keys of the items a caller selected,
\* hazards are created for those items only (all items without selected_keys)
C7_OnlySelectedItems ==
    last.op = "add" =>
        last.added = HazardsOfPositions(LastPairs, 1, last.selItems, last.split)

\* C7 as amended: hazards are created for exactly the items whose key is in
\* selected_keys, which are the selected items and every other item whose
\* key equals the key of a selected one; for all items without selected_keys
C7_ItemsWithSelectedKey ==
    last.op = "add" =>
        last.added =
            HazardsOfPositions(
                LastPairs, 1,
                { n \in 1..Len(LastPairs) :
                    \/ ~last.given
                    \/ template_item_key(last.ind, LastPairs[n][1], LastPairs[n][2])
                          \in last.keys },
                last.split)

\* a strict, non-empty subset of the items was selected and applied
C7_Witness ==
    /\ last.op = "add" /\ last.given
    /\ last.selItems # {} /\ last.selItems # 1..Len(LastPairs)
    /\ last.added # << >>
    /\ Len(last.added) < Len(HazardsOfPositions(LastPairs, 1, 1..Len(LastPairs), last.split))

\* C8: an assessment built by template merges is what from_json gives back
\* for its as_json text, field for field, ids included
C8_RoundTrip ==
    /\ from_json_ok(as_json(assessment))
    /\ from_json(as_json(assessment)) = assessment

\* a merge left hazards with existing controls, sources and measures
C8_Witness ==
    /\ last.op = "add"
    /\ \E i \in 1..Len(Hazards) :
          /\ Hazards[i].existing_controls # << >>
          /\ Hazards[i].sources # << >>
          /\ Hazards[i].additional_measures # << >>
    /\ \E i \in 1..Len(Hazards) :
          \E j \in 1..Len(Hazards[i].additional_measures) :
             Hazards[i].additional_measures[j].notes # EmptyText

\* C9: loading a parsable text never fails
C9_ParsableLoadSucceeds ==
    (last.op = "load" /\ last.parsable) => last.ok

\* C10: a load that fails is reported as failed and leaves the live
\* assessment as it was
C10_FailedLoadKeepsAssessment ==
    [][(last'.op = "load" /\ ~last'.ok) => assessment' = assessment]_vars

\* a load has failed while the live assessment holds hazards
C10_Witness ==
    /\ last.op = "load" /\ ~last.ok
    /\ Hazards # << >>

\* is the sequence p a prefix of s
IsPrefix(p, s) == Len(p) <= Len(s) /\ SubSeq(s, 1, Len(p)) = p

\* C11: the hazards of the live assessment stay in place, at the head of the
\* list, in every step but a replace the caller asked for (preload with
\* replace=True; loading a file, which replaces the whole assessment) or a
\* delete; in particular when another industry is selected
C11_NoImplicitRemoval ==
    [][~IsPrefix(assessment.hazards, assessment'.hazards)
          => \/ last'.op = "preload" /\ last'.replace
             \/ last'.op \in {"load", "delete"}]_vars

(***************************************************************************)
(* Properties of split_hazard_text.                                        *)
(***************************************************************************)
SplitText == TextOf(splitIn)

\* the fragments the pattern cuts the text into, trimmed, the empty ones
\* dropped
SplitFragments == StripNonEmpty(PatternSplit(SplitText, 1, 1))

\* tokens that are (part of) a word
IsWord(tok) == tok \in { <<"A">>, <<"B">>, Und }

\* is the token at position i a delimiter as C12 describes them: a comma, a
\* slash, an ampersand, or an 'und' that is a whole word
IsDelimiterAt(tokens, i) ==
    \/ tokens[i] \in { <<",">>, <<"/">>, <<"&">> }
    \/ /\ tokens[i] = Und
       /\ i = 1 \/ ~IsWord(tokens[i - 1])
       /\ i = Len(tokens) \/ ~IsWord(tokens[i + 1])

\* the texts between the delimiters of C12; piece is the current one
RECURSIVE DelimitedPieces(_, _, _)
DelimitedPieces(tokens, i, piece) ==
    IF i > Len(tokens) THEN << piece >>
    ELSE IF IsDelimiterAt(tokens, i)
         THEN << piece >> \o DelimitedPieces(tokens, i + 1, << >>)
         ELSE DelimitedPieces(tokens, i + 1, piece \o tokens[i])

\* C12: the result is what splitting at every comma, slash, whole-word 'und'
\* and ampersand gives, whatever whitespace surrounds them: the trimmed
\* non-empty fragments (first occurrences; the trimmed text when there is none)
C12_SplitsAtEveryDelimiter ==
    (splitOut # NotCalled /\ splitIn # << >>) =>
        LET frags == Uniq(StripNonEmpty(DelimitedPieces(splitIn, 1, << >>)), {})
        IN  splitOut = IF frags # << >> THEN frags ELSE << strip(SplitText) >>

\* C13: the result is empty only for the empty text; a text of which the
\* split leaves no usable fragment, such as one of commas, slashes and
\* whitespace only, gives the one-element list of the trimmed text
C13_NeverDiscards ==
    splitOut # NotCalled =>
        /\ (splitOut = << >>) <=> (SplitText = << >>)
        /\ SplitText # << >> /\ SplitFragments = << >>
              => splitOut = << strip(SplitText) >>
        /\ (SplitText # << >>
              /\ \A k \in 1..Len(SplitText) : SplitText[k] \in {" ", ",", "/"})
              => splitOut = << strip(SplitText) >>

\* a text of delimiters and whitespace only was split
C13_Witness ==
    /\ splitOut # NotCalled
    /\ SplitText = <<" ", ",", " ", "/">>
    /\ splitOut = << <<",", " ", "/">> >>

\* position of the first occurrence of x in the sequence f
FirstIndex(f, x) == CHOOSE i \in 1..Len(f) : f[i] = x /\ \A k \in 1..(i - 1) : f[k] # x

\* C14: no phrase is twice in the result, the result holds exactly the
\* phrases of the input, and in the order of their first occurrences
C14_DistinctInFirstOrder ==
    (splitOut # NotCalled /\ SplitFragments # << >>) =>
        /\ \A i, j \in 1..Len(splitOut) : i # j => splitOut[i] # splitOut[j]
        /\ {splitOut[i] : i \in 1..Len(splitOut)}
              = {SplitFragments[i] : i \in 1..Len(SplitFragments)}
        /\ \A i, j \in 1..Len(splitOut) :
              i < j => FirstIndex(SplitFragments, splitOut[i])
                         < FirstIndex(SplitFragments, splitOut[j])

\* 'B,A,B' was split into B, A
C14_Witness ==
    /\ splitIn = << <<"B">>, <<",">>, <<"A">>, <<",">>, <<"B">> >>
    /\ splitOut = << <<"B">>, <<"A">> >>

(***************************************************************************)
(* Properties of the hazards a merge creates.                              *)
(***************************************************************************)
\* positions of the items the latest add_template_items applied
LastApplied ==
    { n \in 1..Len(LastPairs) :
        \/ ~last.given
        \/ template_item_key(last.ind, LastPairs[n][1], LastPairs[n][2]) \in last.keys }

\* the phrases an item's hazard text expands into
Expansion(item, split_multi) ==
    IF split_multi
    THEN split_hazard_text(ItemGet(item, "hazard", EmptyText))
    ELSE << ItemGet(item, "hazard", EmptyText) >>

\* what C15 says of a hazard: area, activity, phrase, sources, controls
Row(area, activity, hazard, sources, existing_controls) ==
    [area |-> area, activity |-> activity, hazard |-> hazard,
     sources |-> sources, existing_controls |-> existing_controls]

\* one row per phrase of each applied item, from the n-th item on
RECURSIVE ExpectedRows(_, _, _, _)
ExpectedRows(pairs, n, applied, split_multi) ==
    IF n > Len(pairs) THEN << >>
    ELSE (IF n \in applied
          THEN LET item == pairs[n][2]
                   phrases == Expansion(item, split_multi)
               IN  [k \in 1..Len(phrases) |->
                      Row(pairs[n][1], ItemGet(item, "activity", EmptyText), phrases[k],
                          ItemGet(item, "sources", << >>),
                          ItemGet(item, "existing", << >>))]
          ELSE << >>)
         \o ExpectedRows(pairs, n + 1, applied, split_multi)

\* C15: the hazards appended by add_template_items are, in template order,
\* one per phrase of each applied item's expansion, in expansion order, each
\* with the item's area, activity, sources and existing controls and the
\* phrase as hazard text
C15_OneHazardPerPhrase ==
    last.op = "add" =>
        [k \in 1..Len(last.added) |->
            Row(last.added[k].area, last.added[k].activity, last.added[k].hazard,
                last.added[k].sources, last.added[k].existing_controls)]
          = ExpectedRows(LastPairs, 1, LastApplied, last.split)

\* the whole hotel template was appended with splitting on: two hazards from
\* the first item, one from the second
C15_Witness ==
    /\ last.op = "add" /\ last.split /\ last.tmpl = "LIB_HOTEL"
    /\ Len(last.added) = 3
    /\ last.added[1].hazard = <<"A">> /\ last.added[2].hazard = <<"B">>
    /\ last.added[3].hazard = <<"C">>
    /\ last.added[2].existing_controls # << >>

\* a measure template as C16 describes its normal form: none when the
\* trimmed title is blank
ClaimedMeasure(m) ==
    LET title == IF Has(m, "str") THEN strip(m.str)
                 ELSE strip(ItemGet(m.dict, "title", EmptyText))
    IN  IF title = EmptyText THEN << >>
        ELSE << [title |-> title,
                 stop_level |-> IF Has(m, "dict") /\ Has(m.dict, "stop_level")
                                THEN m.dict.stop_level ELSE "O (Organisatorisch)",
                 notes |-> IF Has(m, "dict") /\ Has(m.dict, "notes")
                           THEN m.dict.notes ELSE EmptyText,
                 responsible |-> EmptyText, due_date |-> None, status |-> "offen"] >>

RECURSIVE ClaimedMeasures(_)
ClaimedMeasures(ms) ==
    IF ms = << >> THEN << >>
    ELSE ClaimedMeasure(Head(ms)) \o ClaimedMeasures(Tail(ms))

\* the measure list of every hazard of each applied item, from the n-th on
RECURSIVE ExpectedMeasures(_, _, _, _)
ExpectedMeasures(pairs, n, applied, split_multi) ==
    IF n > Len(pairs) THEN << >>
    ELSE (IF n \in applied
          THEN [k \in 1..Len(Expansion(pairs[n][2], split_multi)) |->
                   ClaimedMeasures(ItemGet(pairs[n][2], "measures", << >>))]
          ELSE << >>)
         \o ExpectedMeasures(pairs, n + 1, applied, split_multi)

\* C16: every hazard a merge appends holds the normalized measure templates
\* of its item, in template order: title trimmed, STOP level or the default,
\* notes; templates with a blank title left out, so that no measure has an
\* empty title
C16_MeasuresNormalized ==
    last.op = "add" =>
        /\ [k \in 1..Len(last.added) |-> last.added[k].additional_measures]
              = ExpectedMeasures(LastPairs, 1, LastApplied, last.split)
        /\ \A k \in 1..Len(last.added) :
              \A j \in 1..Len(last.added[k].additional_measures) :
                 LET t == last.added[k].additional_measures[j].title
                 IN  t # EmptyText /\ t = strip(t)

\* the custom template was applied: of its first item's three measure
\* templates the bare title and the record with notes were kept, the blank
\* one dropped, on both hazards split from the item
C16_Witness ==
    /\ last.op = "add" /\ last.tmpl = "custom" /\ last.split
    /\ Len(last.added) >= 2
    /\ \A k \in 1..2 :
          /\ Len(last.added[k].additional_measures) = 2
          /\ last.added[k].additional_measures[1].title = <<"q">>
          /\ last.added[k].additional_measures[1].stop_level = "O (Organisatorisch)"
          /\ last.added[k].additional_measures[2].notes = <<"n">>

\* C19: a step that is an add_template_items call keeps the hazards that
\* were there as the head of the list, unchanged, appends the new ones
\* behind them, and changes no other field of the assessment and no template
C19_OnlyAppends ==
    [][last'.op = "add" =>
          /\ IsPrefix(assessment.hazards, assessment'.hazards)
          /\ [assessment' EXCEPT !.hazards = << >>]
                = [assessment EXCEPT !.hazards = << >>]
          /\ templates' = templates]_vars

\* hazards were appended to an assessment that already held some
C19_Witness ==
    /\ last.op = "add"
    /\ last.before > 0
    /\ last.added # << >>
    /\ Len(Hazards) = last.before + Len(last.added)

(***************************************************************************)
(* Properties of the export.                                               *)
(***************************************************************************)
SheetNames == [i \in 1..Len(excelOut.sheets) |-> excelOut.sheets[i].name]

\* C17: the exported workbook has exactly the 8 sheets, in this order,
\* whatever hazards and measures the assessment holds
C17_EightSheets ==
    excelOut # NotExported =>
        SheetNames = <<"01_Stammdaten", "10_Gefährdungen", "20_Maßnahmen", "30_Plan",
                       "40_Wirksamkeit", "50_Dokumentation", "60_Fortschreiben",
                       "90_Konfiguration">>

\* an assessment without hazards was exported
C17_Witness ==
    /\ excelOut # NotExported
    /\ Hazards = << >>
    /\ Len(excelOut.sheets) = 8

\* is label one of the cells of the first row of the sheet
InFirstRow(name, label) ==
    \E i \in 1..Len(excelOut.sheets) :
        /\ excelOut.sheets[i].name = name
        /\ \E c \in 1..Len(excelOut.sheets[i].header) :
               excelOut.sheets[i].header[c] = label

\* C18: the export returns the workbook; the status dropdown is on the Plan
\* sheet exactly when its first row holds "Status", and then on that
\* column; the colour scale is on the Hazards sheet exactly when its first
\* row holds "Risikosumme", and then on that column
C18_FormattingWhenHeaderFound ==
    excelOut # NotExported =>
        /\ Len(excelOut.sheets) = 8
        /\ (excelOut.status_validation # << >>) <=> InFirstRow("30_Plan", "Status")
        /\ excelOut.status_validation # << >> =>
              SheetNamed(excelOut.sheets, "30_Plan")
                 .header[excelOut.status_validation[1].column] = "Status"
        /\ (excelOut.color_scale # << >>) <=> InFirstRow("10_Gefährdungen", "Risikosumme")
        /\ excelOut.color_scale # << >> =>
              SheetNamed(excelOut.sheets, "10_Gefährdungen")
                 .header[excelOut.color_scale[1].column] = "Risikosumme"

\* hazards without any measure were exported: the colour scale is applied,
\* the dropdown is skipped
C18_Witness ==
    /\ excelOut # NotExported
    /\ Hazards # << >>
    /\ excelOut.color_scale # << >>
    /\ excelOut.status_validation = << >>

\* the sequence s without its i-th element
RemoveAt(s, i) == SubSeq(s, 1, i - 1) \o SubSeq(s, i + 1, Len(s))

\* C20: a delete removes exactly one hazard: the list after it is the list
\* before it without one element, the others unchanged and in their order
C20_DeleteRemovesOne ==
    [][(last'.op = "delete" /\ assessment' # assessment)
          => /\ Len(assessment'.hazards) = Len(assessment.hazards) - 1
             /\ \E i \in 1..Len(assessment.hazards) :
                   assessment'.hazards = RemoveAt(assessment.hazards, i)]_vars
====
